---- MODULE Spec2Model ----
(***************************************************************************)
(* Model of the Jira daily work-log scripts:                               *)
(*   src/jira_daily_activity_logger.py  (the "logger" variant)             *)
(*   src/daily-dev-creator.py           (the "creator" variant)            *)
(*                                                                         *)
(* Strings are sequences of one-character strings, so that formatting,     *)
(* parsing and lexicographic comparison are computed and not assumed.      *)
(* A datetime is a record [day, sec, us, off]: the proleptic Gregorian     *)
(* ordinal of its calendar day, the second of the day, the microsecond and *)
(* the UTC offset in seconds of its time zone.                             *)
(***************************************************************************)
EXTENDS Integers, Sequences, FiniteSets, TLC

VARIABLES
    variant,      \* which script runs: "logger" or "creator"
    now,          \* datetime.now(tz): the local wall clock of the run
    custom_date,  \* the date string handed to the resolver (<<>> is None / empty)
    window,       \* what fetch_previous_working_day returned
    wpc,          \* position of the resolver run
    f_in,         \* format_time: the argument
    f_out,        \* format_time: the string returned
    fpc,          \* position of the format_time call
    mpc,          \* position of __main__
    daily_activities,         \* what fetch_daily_activities returned
    ri,                       \* __main__: index of the activity being rendered
    activity_string,          \* __main__: the report so far, a sequence of lines
    total_original_estimate,  \* __main__: running total
    total_time_spent,         \* __main__: running total
    tracker_issues,      \* the tracker: the issues of the work projects
    issues,              \* fetch_daily_activities: the search result
    ci,                  \* fetch_daily_activities: index of the issue in the loop
    activity_list,       \* fetch_daily_activities: the records so far
    worklog_time_total,  \* fetch_daily_activities: the current issue's total
    epics,               \* the tracker: the epics of project DEV
    monthlies,           \* the tracker: the tasks of project DEV
    subtasks,            \* the tracker: the sub-tasks of project DEV, by key 1..n
    upc,                 \* create_daily_work_log: position, per run
    u_report,            \* create_daily_work_log: activity_string
    u_now,               \* create_daily_work_log: now
    u_monthly,           \* create_daily_work_log: monthly_issue_key
    u_sub,               \* create_daily_work_log: sub_task_key / sub_task.key
    calls,               \* the tracker calls each run has made, in order
    logged,              \* the last line each run has logged
    pre,                 \* history: the sub-tasks as they were when each run began
    journal,             \* history: the sub-task each finished Append wrote to
    runs,                \* the number of runs begun
    overlap              \* a run has begun while another was under way

winVars == <<variant, now, custom_date, window, wpc>>

fmtVars == <<f_in, f_out, fpc>>

renderVars == <<daily_activities, ri, activity_string, total_original_estimate,
                total_time_spent>>

collVars == <<tracker_issues, issues, ci, activity_list, worklog_time_total>>

trackerVars == <<epics, monthlies, subtasks>>

upVars == <<upc, u_report, u_now, u_monthly, u_sub, pre, journal, runs, overlap>>

logVars == <<calls, logged>>

vars == <<winVars, fmtVars, mpc, renderVars, collVars, trackerVars, upVars, logVars>>

(***************************************************************************)
(* Characters and strings                                                  *)
(***************************************************************************)
DigitChars == <<"0", "1", "2", "3", "4", "5", "6", "7", "8", "9">>

IsDigit(c) == \E i \in 1..10 : DigitChars[i] = c

DigitVal(c) == (CHOOSE i \in 1..10 : DigitChars[i] = c) - 1

DigitChar(n) == DigitChars[n + 1]

\* zero-padded decimal of width 2 and 4 (%m, %d, %H, %M and %Y of strftime)
Pad2(n) == <<DigitChar((n \div 10) % 10), DigitChar(n % 10)>>

Pad4(n) == <<DigitChar((n \div 1000) % 10), DigitChar((n \div 100) % 10),
             DigitChar((n \div 10) % 10), DigitChar(n % 10)>>

\* str(n) of an integer
RECURSIVE IntStr(_)
IntStr(n) ==
    IF n < 0 THEN <<"-">> \o IntStr(-n)
    ELSE IF n < 10 THEN <<DigitChar(n)>>
    ELSE IntStr(n \div 10) \o <<DigitChar(n % 10)>>

\* an optional integer: None, or an int
None == [none |-> TRUE]

Some(n) == [none |-> FALSE, v |-> n]

\* x or 0
OrZero(x) == IF x.none \/ x.v = 0 THEN 0 ELSE x.v

(***************************************************************************)
(* format_time                                                             *)
(***************************************************************************)
\* a slip: the minutes are not reduced modulo the hour
format_time_slip(seconds) ==
    IF seconds.none THEN <<"N", "/", "A">>
    ELSE LET hours   == seconds.v \div 3600
             minutes == seconds.v \div 60
         IN  IntStr(hours) \o <<"h", " ">> \o IntStr(minutes) \o <<"m">>

format_time(seconds) ==
    IF seconds.none THEN <<"N", "/", "A">>
    ELSE LET hours   == seconds.v \div 3600
             minutes == (seconds.v % 3600) \div 60
         IN  IntStr(hours) \o <<"h", " ">> \o IntStr(minutes) \o <<"m">>

(***************************************************************************)
(* Calendar arithmetic of datetime                                         *)
(***************************************************************************)
SecondsPerDay == 86400

IsLeap(y) == (y % 4 = 0) /\ ((y % 100 # 0) \/ (y % 400 = 0))

DaysInMonth(y, m) ==
    IF m = 2 THEN (IF IsLeap(y) THEN 29 ELSE 28)
    ELSE IF m \in {4, 6, 9, 11} THEN 30 ELSE 31

DaysBeforeYear(y) ==
    (y - 1) * 365 + ((y - 1) \div 4) - ((y - 1) \div 100) + ((y - 1) \div 400)

RECURSIVE DaysBeforeMonth(_, _)
DaysBeforeMonth(y, m) ==
    IF m = 1 THEN 0 ELSE DaysBeforeMonth(y, m - 1) + DaysInMonth(y, m - 1)

\* date(y, m, d).toordinal()
Ordinal(y, m, d) == DaysBeforeYear(y) + DaysBeforeMonth(y, m) + d

\* date.fromordinal(n) as [y, m, d]
FromOrdinal(n) ==
    LET y == CHOOSE yy \in (n \div 366)..((n \div 365) + 1) :
                 DaysBeforeYear(yy) < n /\ n <= DaysBeforeYear(yy + 1)
        r == n - DaysBeforeYear(y)
        m == CHOOSE mm \in 1..12 :
                 DaysBeforeMonth(y, mm) < r
                     /\ r <= DaysBeforeMonth(y, mm) + DaysInMonth(y, mm)
    IN  [y |-> y, m |-> m, d |-> r - DaysBeforeMonth(y, m)]

\* datetime.weekday(): Monday is 0, Sunday is 6
Weekday(dt) == (dt.day + 6) % 7

\* dt - timedelta(days=n)
MinusDays(dt, n) == [dt EXCEPT !.day = dt.day - n]

\* dt + timedelta(days=n)
PlusDays(dt, n) == [dt EXCEPT !.day = dt.day + n]

\* dt - timedelta(seconds=n), for 0 <= n <= 86400
MinusSeconds(dt, n) ==
    IF dt.sec >= n THEN [dt EXCEPT !.sec = dt.sec - n]
    ELSE [dt EXCEPT !.day = dt.day - 1, !.sec = dt.sec + SecondsPerDay - n]

\* dt.astimezone(pytz.timezone('UTC')): the same instant with offset 0
AsUTC(dt) ==
    LET s == dt.sec - dt.off
    IN  [day |-> dt.day + (IF s < 0 THEN -1 ELSE IF s >= SecondsPerDay THEN 1 ELSE 0),
         sec |-> (s + SecondsPerDay) % SecondsPerDay,
         us  |-> dt.us,
         off |-> 0]

\* dt.replace(hour=0, minute=0, second=0, microsecond=0)
StartOfDay(dt) == [dt EXCEPT !.sec = 0, !.us = 0]

\* comparison of two aware datetimes: by instant
Instant(dt) == <<dt.day + (IF dt.sec - dt.off < 0 THEN -1
                           ELSE IF dt.sec - dt.off >= SecondsPerDay THEN 1 ELSE 0),
                 (dt.sec - dt.off + SecondsPerDay) % SecondsPerDay,
                 dt.us>>

DtLess(a, b) ==
    LET x == Instant(a)
        y == Instant(b)
    IN  \/ x[1] < y[1]
        \/ x[1] = y[1] /\ x[2] < y[2]
        \/ x[1] = y[1] /\ x[2] = y[2] /\ x[3] < y[3]

DtLeq(a, b) == DtLess(a, b) \/ Instant(a) = Instant(b)

(***************************************************************************)
(* datetime.strptime(s, '%Y-%m-%d')                                        *)
(***************************************************************************)
NoDate == [ok |-> FALSE]

\* the text between positions i and j of s as a month or day number: one or
\* two digits; 0 when it is no number ("0" and "00" match neither %m nor %d)
Num12(s, i, j) ==
    IF j = i /\ IsDigit(s[i]) THEN DigitVal(s[i])
    ELSE IF j = i + 1 /\ IsDigit(s[i]) /\ IsDigit(s[j])
         THEN DigitVal(s[i]) * 10 + DigitVal(s[j])
    ELSE 0

\* %d also takes a blank followed by a digit 1-9
NumDay(s, i, j) ==
    IF j = i + 1 /\ s[i] = " " /\ IsDigit(s[j]) /\ s[j] # "0" THEN DigitVal(s[j])
    ELSE Num12(s, i, j)

Strptime(s) ==
    IF Len(s) < 8 \/ Len(s) > 10 THEN NoDate
    ELSE IF ~(\A i \in 1..4 : IsDigit(s[i])) \/ s[5] # "-" THEN NoDate
    ELSE LET y    == DigitVal(s[1]) * 1000 + DigitVal(s[2]) * 100
                         + DigitVal(s[3]) * 10 + DigitVal(s[4])
             dash == IF s[7] = "-" THEN 7 ELSE IF s[8] = "-" THEN 8 ELSE 0
         IN  IF dash = 0 \/ dash = Len(s) THEN NoDate
             ELSE LET m == Num12(s, 6, dash - 1)
                      d == NumDay(s, dash + 1, Len(s))
                  IN  IF Len(s) - dash > 2 \/ y < 1 \/ m < 1 \/ m > 12 \/ d < 1
                      THEN NoDate
                      ELSE IF d > DaysInMonth(y, m) THEN NoDate
                      ELSE [ok |-> TRUE, y |-> y, m |-> m, d |-> d]

\* dt.strftime('%Y-%m-%d')
StrfDate(dt) ==
    LET c == FromOrdinal(dt.day)
    IN  Pad4(c.y) \o <<"-">> \o Pad2(c.m) \o <<"-">> \o Pad2(c.d)

\* dt.strftime('%Y-%m-%d %H:%M')
StrfMinute(dt) ==
    StrfDate(dt) \o <<" ">> \o Pad2(dt.sec \div 3600) \o <<":">>
        \o Pad2((dt.sec % 3600) \div 60)

(***************************************************************************)
(* fetch_previous_working_day                                              *)
(***************************************************************************)
NoWindow == [ok |-> FALSE]

\* a slip in the window: the end is the next midnight and the anchor's
\* microseconds are kept
DayWindowSlip(dt) ==
    LET start_of_day == [dt EXCEPT !.sec = 0]
        end_of_day   == PlusDays(start_of_day, 1)
    IN  [ok |-> TRUE, start |-> start_of_day, end |-> end_of_day]

\* the window of the day of dt: lines 51-53 of the logger, 37-39 of the creator
DayWindow(dt) ==
    LET start_of_day == StartOfDay(dt)
        end_of_day   == MinusSeconds(PlusDays(start_of_day, 1), 1)
    IN  [ok |-> TRUE, start |-> start_of_day, end |-> end_of_day]

\* a slip in the shift: no case for Sunday
LoggerShiftSlip(now_utc) ==
    IF Weekday(now_utc) = 0 THEN MinusDays(now_utc, 3)
    ELSE MinusDays(now_utc, 1)

\* lines 42-49 of the logger: the shift of the default anchor
LoggerShift(now_utc) ==
    IF Weekday(now_utc) = 0 THEN MinusDays(now_utc, 3)
    ELSE IF Weekday(now_utc) = 6 THEN MinusDays(now_utc, 2)
    ELSE IF Weekday(now_utc) = 5 THEN MinusDays(now_utc, 1)
    ELSE MinusDays(now_utc, 1)

\* fetch_previous_working_day(custom_date) of the logger
LoggerPreviousWorkingDay(date, n) ==
    IF date # <<>>
    THEN LET p == Strptime(date)
         IN  IF ~p.ok THEN NoWindow
             ELSE DayWindow([day |-> Ordinal(p.y, p.m, p.d), sec |-> 0,
                             us |-> 0, off |-> 0])
    ELSE DayWindow(LoggerShift(AsUTC(n)))

\* fetch_previous_working_day() of the creator
CreatorPreviousWorkingDay(n) ==
    LET previous_working_day ==
            IF Weekday(n) = 0 THEN MinusDays(n, 3) ELSE MinusDays(n, 1)
    IN  DayWindow(previous_working_day)

(***************************************************************************)
(* The resolver on its own: every anchor and every date string             *)
(***************************************************************************)
NumDays == 8

FirstDay == Ordinal(2024, 7, 27)      \* a Saturday

Days == FirstDay..(FirstDay + NumDays - 1)

\* second and microsecond of the anchor's time of day
TimesOfDay == {<<0, 0>>, <<1, 500000>>, <<43200, 0>>, <<86399, 999999>>}

\* UTC offsets of the local zone: UTC-5, UTC, UTC+5:45
Offsets == {-18000, 0, 20700}

Nows == {[day |-> d, sec |-> t[1], us |-> t[2], off |-> o] :
            d \in Days, t \in TimesOfDay, o \in Offsets}

DateText(d) == StrfDate([day |-> d, sec |-> 0, us |-> 0, off |-> 0])

\* well-formed date strings: zero-padded, and with one-digit month and day
PaddedDates == {DateText(d) : d \in Days}

ShortDates == {<<"2", "0", "2", "4", "-", "8", "-", "1">>,
               <<"2", "0", "2", "4", "-", "7", "-", "3", "0">>,
               <<"2", "0", "2", "4", "-", "0", "8", "-", "2">>,
               <<"2", "0", "2", "4", "-", "0", "8", "-", " ", "2">>}

MalformedDates ==
    {<<"2", "0", "2", "4", "-", "1", "3", "-", "0", "1">>,
     <<"2", "0", "2", "3", "-", "0", "2", "-", "2", "9">>,
     <<"2", "0", "2", "4", "-", "0", "0", "-", "1", "0">>,
     <<"2", "0", "2", "4", "-", "0", "8", "-", "3", "2">>,
     <<"1", "4", "-", "0", "8", "-", "2", "0", "2", "4">>,
     <<"2", "0", "2", "4", "/", "0", "8", "/", "1", "4">>,
     <<"2", "0", "2", "4", "-", "0", "8", "-", "1", "4", " ">>,
     <<"2", "0", "2", "4", "-", "0", "8", "-", "1", "x">>,
     <<"2", "0", "2", "4", "0", "8", "1", "4">>,
     <<"2", "0", "2", "4", "-", " ", "8", "-", "0", "2">>,
     <<"0", "0", "0", "0", "-", "0", "1", "-", "0", "1">>,
     <<"2", "0", "2", "4", "-", "0", "8">>,
     <<"a", "b", "c", "d">>}

DateInputs == PaddedDates \cup ShortDates \cup MalformedDates

NumProcs == 2

\* the runs of the script: run 1 is the one __main__ is followed through
Procs == 1..NumProcs

FmtIdle == f_in = None /\ f_out = <<>> /\ fpc = "idle"

CollIdle ==
    /\ tracker_issues = {}
    /\ issues = <<>>
    /\ ci = 0
    /\ activity_list = <<>>
    /\ worklog_time_total = 0

LogIdle ==
    /\ calls = [p \in Procs |-> <<>>]
    /\ logged = [p \in Procs |-> ""]

UpIdle ==
    /\ upc = [p \in Procs |-> "idle"]
    /\ u_report = [p \in Procs |-> <<>>]
    /\ u_now = [p \in Procs |-> [day |-> FirstDay, sec |-> 0, us |-> 0, off |-> 0]]
    /\ u_monthly = [p \in Procs |-> ""]
    /\ u_sub = [p \in Procs |-> 0]
    /\ pre = [p \in Procs |-> <<>>]
    /\ journal = <<>>
    /\ runs = 0
    /\ overlap = FALSE

TrackerIdle == epics = <<>> /\ monthlies = <<>> /\ subtasks = <<>>

MainIdle ==
    /\ mpc = "idle"
    /\ daily_activities = <<>>
    /\ ri = 0
    /\ activity_string = <<>>
    /\ total_original_estimate = 0
    /\ total_time_spent = 0

WinIdle ==
    /\ variant = "logger"
    /\ now = [day |-> FirstDay, sec |-> 0, us |-> 0, off |-> 0]
    /\ custom_date = <<>>
    /\ window = NoWindow
    /\ wpc = "idle"

WinInit ==
    /\ variant \in {"logger", "creator"}
    /\ now \in Nows
    /\ custom_date \in (IF variant = "logger" THEN DateInputs \cup {<<>>} ELSE {<<>>})
    /\ window = NoWindow
    /\ wpc = "call"
    /\ FmtIdle /\ MainIdle /\ CollIdle /\ LogIdle /\ UpIdle /\ TrackerIdle

FetchLogger ==
    /\ wpc = "call"
    /\ variant = "logger"
    /\ window' = LoggerPreviousWorkingDay(custom_date, now)
    /\ wpc' = "returned"
    /\ UNCHANGED <<variant, now, custom_date, fmtVars, mpc, renderVars, collVars,
                   trackerVars, upVars, logVars>>

FetchCreator ==
    /\ wpc = "call"
    /\ variant = "creator"
    /\ window' = CreatorPreviousWorkingDay(now)
    /\ wpc' = "returned"
    /\ UNCHANGED <<variant, now, custom_date, fmtVars, mpc, renderVars, collVars,
                   trackerVars, upVars, logVars>>

WinNext == FetchLogger \/ FetchCreator

SpecWindow == WinInit /\ [][WinNext]_vars

Returned == wpc = "returned"

\* the anchor of the logger's default path: now, seen in UTC
Anchor == AsUTC(now)

\* the days the short date strings name
ShortDay(s) ==
    IF s = <<"2", "0", "2", "4", "-", "8", "-", "1">> THEN Ordinal(2024, 8, 1)
    ELSE IF s = <<"2", "0", "2", "4", "-", "7", "-", "3", "0">> THEN Ordinal(2024, 7, 30)
    ELSE Ordinal(2024, 8, 2)

\* C4: the logger's default path moves the anchor back 3 days on a Monday, 2 on
\* a Sunday and 1 on every other day, so that Saturday, Sunday and Monday resolve
\* to the preceding Friday and Tuesday to Friday to the day before; an explicit
\* valid date is not shifted: the window is the day the string names.
C4_Shift ==
    (Returned /\ variant = "logger") =>
        /\ custom_date = <<>> =>
               LET wd == (Anchor.day + 6) % 7
                   back == Anchor.day - window.start.day
               IN  /\ window.ok
                   /\ back = (IF wd = 0 THEN 3 ELSE IF wd = 6 THEN 2 ELSE 1)
                   /\ wd \in {5, 6, 0} =>
                          (window.start.day + 6) % 7 = 4 /\ back \in 1..3
                   /\ wd \in 1..4 => back = 1
        /\ \A d \in Days : custom_date = DateText(d) =>
               window.ok /\ window.start.day = d /\ window.end.day = d
        /\ custom_date \in ShortDates =>
               window.ok /\ window.start.day = ShortDay(custom_date)

C4_Witness ==
    /\ Returned /\ variant = "logger" /\ custom_date = <<>>
    /\ (Anchor.day + 6) % 7 = 6
    /\ Anchor.day # now.day
    /\ window.ok /\ Anchor.day - window.start.day = 2

C4_WitnessExplicit ==
    /\ Returned /\ variant = "logger" /\ custom_date \in ShortDates
    /\ window.ok /\ (now.day + 6) % 7 = 0 /\ window.start.day = Ordinal(2024, 8, 1)

\* C5: in every variant, with no explicit date the resolved day is a working
\* day: the window never starts on a Saturday or a Sunday.
C5_WorkingDay ==
    (Returned /\ custom_date = <<>>) =>
        window.ok /\ (window.start.day + 6) % 7 \notin {5, 6}

\* C6: every returned window starts at 00:00:00.000, ends 24h - 1s later and
\* has start < end; a malformed explicit date yields no window.
C6_Window ==
    Returned =>
        /\ window.ok =>
               /\ window.start.sec = 0 /\ window.start.us = 0
               /\ (window.end.day - window.start.day) * 86400
                      + (window.end.sec - window.start.sec) = 86400 - 1
               /\ window.end.us = window.start.us
               /\ window.end.off = window.start.off
               /\ DtLess(window.start, window.end)
        /\ window.ok <=> custom_date \notin MalformedDates

C6_Witness ==
    /\ Returned /\ window.ok /\ custom_date = <<>>
    /\ now.sec = 86399 /\ now.us = 999999 /\ now.off = 20700
    /\ window.end.sec = 86399

C6_WitnessMalformed ==
    Returned /\ custom_date \in MalformedDates /\ ~window.ok

(***************************************************************************)
(* format_time on its own: every duration up to MaxSeconds                 *)
(***************************************************************************)
MaxSeconds == 7322

FormatInputs ==
    {None} \cup {Some(n) : n \in 0..MaxSeconds}
        \cup {Some(86399), Some(86400), Some(359999), Some(360000)}

FmtInit ==
    /\ f_in \in FormatInputs
    /\ f_out = <<>>
    /\ fpc = "call"
    /\ WinIdle /\ MainIdle /\ CollIdle /\ LogIdle /\ UpIdle /\ TrackerIdle

FormatTime ==
    /\ fpc = "call"
    /\ f_out' = format_time(f_in)
    /\ fpc' = "returned"
    /\ UNCHANGED <<f_in, winVars, mpc, renderVars, collVars, trackerVars, upVars,
                   logVars>>

SpecFormat == FmtInit /\ [][FormatTime]_vars

\* the number a string of digits writes, -1 when it is no canonical decimal
RECURSIVE DecVal(_)
DecVal(t) ==
    IF t = <<>> \/ (Len(t) > 1 /\ t[1] = "0") \/ ~(\A i \in 1..Len(t) : IsDigit(t[i]))
    THEN -1
    ELSE IF Len(t) = 1 THEN DigitVal(t[1])
    ELSE DecVal(SubSeq(t, 1, Len(t) - 1)) * 10 + DigitVal(t[Len(t)])

\* the hours and minutes a string "{h}h {m}m" shows, <<-1, -1>> when it has
\* another form
ShownTime(t) ==
    IF ~(\E i \in 1..Len(t) : t[i] = "h") THEN <<-1, -1>>
    ELSE LET i == CHOOSE k \in 1..Len(t) : t[k] = "h" /\ \A j \in 1..(k - 1) : t[j] # "h"
         IN  IF Len(t) < i + 3 \/ t[i + 1] # " " \/ t[Len(t)] # "m" THEN <<-1, -1>>
             ELSE <<DecVal(SubSeq(t, 1, i - 1)), DecVal(SubSeq(t, i + 2, Len(t) - 1))>>

\* C7: format_time(None) is "N/A"; for s >= 0, format_time(s) is "{h}h {m}m"
\* with h = s div 3600 and m = (s mod 3600) div 60, so 0 <= m < 60 and
\* h*3600 + m*60 <= s < h*3600 + m*60 + 60; format_time(0) = "0h 0m" and
\* format_time(3661) = "1h 1m".
C7_FormatTime ==
    fpc = "returned" =>
        /\ f_in.none => f_out = <<"N", "/", "A">>
        /\ ~f_in.none =>
               LET h == ShownTime(f_out)[1]
                   m == ShownTime(f_out)[2]
                   s == f_in.v
               IN  /\ h = s \div 3600
                   /\ m = (s % 3600) \div 60
                   /\ 0 <= m /\ m < 60
                   /\ h * 3600 + m * 60 <= s
                   /\ s < h * 3600 + m * 60 + 60
        /\ f_in = Some(0) => f_out = <<"0", "h", " ", "0", "m">>
        /\ f_in = Some(3661) => f_out = <<"1", "h", " ", "1", "m">>

C7_Witness ==
    fpc = "returned" /\ f_in = Some(3661) /\ f_out = <<"1", "h", " ", "1", "m">>

C7_WitnessNone == fpc = "returned" /\ f_in = None /\ f_out = <<"N", "/", "A">>

(***************************************************************************)
(* __main__ of the logger: rendering the report (lines 234-277).           *)
(* The report is a sequence of lines; a line is [kind, text], text being   *)
(* the values the f-string puts on it.                                     *)
(***************************************************************************)
Line(kind, text) == [kind |-> kind, text |-> text]

PanelClose == Line("{panel}", <<>>)

\* lines 248-254: the panel of one activity up to Time Spent
ActivityHead(activity) ==
    <<Line("{panel:title", <<activity.issue_key, " - ", activity.issue_summary>>),
      Line("*Link*", <<activity.issue_link>>),
      Line("*Original Estimate*", format_time(Some(OrZero(activity.original_estimate)))),
      Line("*Created*", activity.created),
      Line("*Updated*", activity.updated),
      Line("*Time Spent*", format_time(Some(OrZero(activity.time_spent))))>>

\* lines 257-260
StatusLines(activity) ==
    IF activity.status_changes # <<>>
    THEN <<Line("", <<>>), Line("*Status Changes:*", <<>>)>>
             \o [k \in 1..Len(activity.status_changes) |->
                    Line(" - From", <<activity.status_changes[k].from,
                                      activity.status_changes[k].to>>
                                        \o activity.status_changes[k].date)]
    ELSE <<>>

\* lines 262-265
CommentLines(activity) ==
    IF Len(activity.comments) > 0
    THEN <<Line("", <<>>), Line("*Comments:*", <<>>)>>
             \o [k \in 1..Len(activity.comments) |->
                    Line("* ", <<activity.comments[k].body>>
                                   \o activity.comments[k].created)]
    ELSE <<>>

\* line 267
ActivityTail == <<PanelClose, Line("", <<>>), Line("----", <<>>), Line("", <<>>)>>

ActivityPanel(activity) ==
    ActivityHead(activity) \o StatusLines(activity) \o CommentLines(activity)
        \o ActivityTail

TotalsHeader == Line("{panel:title", <<"Total Time Summary">>)

\* lines 270-277
TotalsPanel(original, spent) ==
    <<TotalsHeader,
      Line("*Total Original Estimate*", format_time(Some(original))),
      Line("*Total Time Spent*", format_time(Some(spent))),
      PanelClose>>

\* lines 234-237: a non-empty list starts the report
RenderBegin ==
    /\ mpc = "fetched"
    /\ daily_activities # <<>>
    /\ activity_string' = <<>>
    /\ total_original_estimate' = 0
    /\ total_time_spent' = 0
    /\ ri' = 1
    /\ mpc' = "render"
    /\ UNCHANGED <<daily_activities, winVars, fmtVars, collVars, trackerVars,
                   upVars, logVars>>

\* a slip: with no activities the work log is still filed
NoActivitiesSlip ==
    /\ mpc = "fetched"
    /\ daily_activities = <<>>
    /\ mpc' = "upsert"
    /\ upc' = [upc EXCEPT ![1] = "user"]
    /\ pre' = [pre EXCEPT ![1] = subtasks]
    /\ UNCHANGED <<renderVars, winVars, fmtVars, collVars, trackerVars, u_report,
                   u_now, u_monthly, u_sub, journal, runs, overlap, logVars>>

\* lines 281-282: None or an empty list ends the run
NoActivities ==
    /\ mpc = "fetched"
    /\ daily_activities = <<>>
    /\ mpc' = "exit"
    /\ logged' = [logged EXCEPT ![1] = "no_activities"]
    /\ UNCHANGED <<renderVars, winVars, fmtVars, collVars, trackerVars, upVars, calls>>

\* a slip: the panel is put in front of the report
RenderActivitySlip ==
    /\ mpc = "render"
    /\ ri <= Len(daily_activities)
    /\ LET activity == daily_activities[ri]
       IN  /\ total_original_estimate' =
                  total_original_estimate + OrZero(activity.original_estimate)
           /\ total_time_spent' = total_time_spent + OrZero(activity.time_spent)
           /\ activity_string' = ActivityPanel(activity) \o activity_string
    /\ ri' = ri + 1
    /\ UNCHANGED <<mpc, daily_activities, winVars, fmtVars, collVars, trackerVars,
                   upVars, logVars>>

\* lines 238-267: one turn of the loop
RenderActivity ==
    /\ mpc = "render"
    /\ ri <= Len(daily_activities)
    /\ LET activity == daily_activities[ri]
       IN  /\ total_original_estimate' =
                  total_original_estimate + OrZero(activity.original_estimate)
           /\ total_time_spent' = total_time_spent + OrZero(activity.time_spent)
           /\ activity_string' = activity_string \o ActivityPanel(activity)
    /\ ri' = ri + 1
    /\ UNCHANGED <<mpc, daily_activities, winVars, fmtVars, collVars, trackerVars,
                   upVars, logVars>>

\* lines 270-277: the totals panel ends the report
RenderTotals ==
    /\ mpc = "render"
    /\ ri > Len(daily_activities)
    /\ activity_string' =
           activity_string \o TotalsPanel(total_original_estimate, total_time_spent)
    /\ mpc' = "rendered"
    /\ UNCHANGED <<daily_activities, ri, total_original_estimate, total_time_spent,
                   winVars, fmtVars, collVars, trackerVars, upVars, logVars>>

(***************************************************************************)
(* The renderer on its own: every list of up to MaxActs activities         *)
(***************************************************************************)
MaxActs == 2

IssueKeys == {"ABC-1", "ABC-2", "ABC-3"}

Estimates == {None, Some(5400), Some(7200)}

Spents == {0, 3660}

AStatusChange ==
    [from |-> "To Do", to |-> "Done",
     date |-> StrfMinute([day |-> FirstDay, sec |-> 36000, us |-> 0, off |-> 0])]

AComment == [body |-> "Done", created |-> DateText(FirstDay)]

\* ABC-1 has a status change and a comment, ABC-2 a comment, ABC-3 neither
RenderPool ==
    {[issue_key |-> k, issue_summary |-> "Fix bug", issue_link |-> k,
      original_estimate |-> e, time_spent |-> Some(t),
      comments |-> IF k = "ABC-3" THEN <<>> ELSE <<AComment>>,
      status_changes |-> IF k = "ABC-1" THEN <<AStatusChange>> ELSE <<>>,
      created |-> DateText(FirstDay), updated |-> DateText(FirstDay + 1)] :
        k \in IssueKeys, e \in Estimates, t \in Spents}

\* lists of activities of distinct issues
RenderLists ==
    UNION {{l \in [1..n -> RenderPool] :
               \A i, j \in 1..n : i # j => l[i].issue_key # l[j].issue_key} :
           n \in 0..MaxActs}

RenderInit ==
    /\ mpc = "fetched"
    /\ daily_activities \in RenderLists
    /\ ri = 0
    /\ activity_string = <<>>
    /\ total_original_estimate = 0
    /\ total_time_spent = 0
    /\ WinIdle /\ FmtIdle /\ CollIdle /\ LogIdle /\ UpIdle /\ TrackerIdle

RenderNext == RenderBegin \/ NoActivities \/ RenderActivity \/ RenderTotals

SpecRender == RenderInit /\ [][RenderNext]_vars

RECURSIVE SumOf(_, _)
SumOf(l, field) ==
    IF l = <<>> THEN 0
    ELSE (IF field = "original_estimate"
          THEN (IF Head(l).original_estimate.none THEN 0
                ELSE Head(l).original_estimate.v)
          ELSE Head(l).time_spent.v) + SumOf(Tail(l), field)

IsIssueHeader(line) == line.kind = "{panel:title" /\ line # TotalsHeader

\* C8: the report of a non-empty list ends with exactly one totals panel, whose
\* totals are format_time of the sums of the records' original estimates (absent
\* counted 0) and times spent; the issue panels precede it in the list's order.
C8_Totals ==
    (mpc = "rendered") =>
        LET n == Len(activity_string)
            headers == SelectSeq(activity_string, IsIssueHeader)
        IN  /\ daily_activities # <<>>
            /\ n >= 4
            /\ activity_string[n - 3] = TotalsHeader
            /\ activity_string[n - 2] =
                   Line("*Total Original Estimate*",
                        format_time(Some(SumOf(daily_activities, "original_estimate"))))
            /\ activity_string[n - 1] =
                   Line("*Total Time Spent*",
                        format_time(Some(SumOf(daily_activities, "time_spent"))))
            /\ activity_string[n] = PanelClose
            /\ Cardinality({i \in 1..n : activity_string[i] = TotalsHeader}) = 1
            /\ Cardinality({i \in 1..n :
                   activity_string[i].kind = "*Total Original Estimate*"}) = 1
            /\ Len(headers) = Len(daily_activities)
            /\ \A i \in 1..Len(headers) :
                   headers[i].text[1] = daily_activities[i].issue_key

C8_Witness ==
    /\ mpc = "rendered"
    /\ Len(daily_activities) = 2
    /\ daily_activities[1].issue_key = "ABC-2"
    /\ daily_activities[2].issue_key = "ABC-1"
    /\ daily_activities[1].original_estimate = None
    /\ daily_activities[2].original_estimate = Some(5400)
    /\ activity_string[Len(activity_string) - 2].text = <<"1", "h", " ", "3", "0", "m">>

(***************************************************************************)
(* Timestamps as the tracker's API gives them, and string comparison       *)
(***************************************************************************)
Pad3(n) == <<DigitChar((n \div 100) % 10), DigitChar((n \div 10) % 10), DigitChar(n % 10)>>

\* the tracker's text of a timestamp: 2024-07-31T10:00:00.000+0545
IsoStr(dt) ==
    LET a == IF dt.off < 0 THEN -dt.off ELSE dt.off
    IN  StrfDate(dt) \o <<"T">> \o Pad2(dt.sec \div 3600) \o <<":">>
            \o Pad2((dt.sec % 3600) \div 60) \o <<":">> \o Pad2(dt.sec % 60)
            \o <<".">> \o Pad3(dt.us \div 1000)
            \o <<IF dt.off < 0 THEN "-" ELSE "+">>
            \o Pad2(a \div 3600) \o Pad2((a % 3600) \div 60)

Dec2(s, i) == DigitVal(s[i]) * 10 + DigitVal(s[i + 1])

Dec4(s, i) == Dec2(s, i) * 100 + Dec2(s, i + 2)

\* datetime.strptime(s, '%Y-%m-%dT%H:%M:%S.%f%z') of the tracker's text
ParseIso(s) ==
    [day |-> Ordinal(Dec4(s, 1), Dec2(s, 6), Dec2(s, 9)),
     sec |-> Dec2(s, 12) * 3600 + Dec2(s, 15) * 60 + Dec2(s, 18),
     us  |-> (DigitVal(s[21]) * 100 + Dec2(s, 22)) * 1000,
     off |-> (IF s[24] = "-" THEN -1 ELSE 1) * (Dec2(s, 25) * 3600 + Dec2(s, 27) * 60)]

\* the tracker's reading of a JQL date "yyyy-MM-dd HH:mm", in the zone of the window
ParseMinute(s) ==
    [day |-> Ordinal(Dec4(s, 1), Dec2(s, 6), Dec2(s, 9)),
     sec |-> Dec2(s, 12) * 3600 + Dec2(s, 15) * 60,
     us  |-> 0,
     off |-> 0]

\* s.split("T")[0]
RECURSIVE SplitT(_)
SplitT(s) ==
    IF s = <<>> \/ Head(s) = "T" THEN <<>> ELSE <<Head(s)>> \o SplitT(Tail(s))

\* ord(c) of the characters of a timestamp
CharCode(c) ==
    IF c = " " THEN 32
    ELSE IF c = "+" THEN 43
    ELSE IF c = "-" THEN 45
    ELSE IF c = "." THEN 46
    ELSE IF IsDigit(c) THEN 48 + DigitVal(c)
    ELSE IF c = ":" THEN 58
    ELSE 84

\* a > b of two str
RECURSIVE StrGreater(_, _)
StrGreater(a, b) ==
    IF a = <<>> THEN FALSE
    ELSE IF b = <<>> THEN TRUE
    ELSE IF Head(a) # Head(b) THEN CharCode(Head(a)) > CharCode(Head(b))
    ELSE StrGreater(Tail(a), Tail(b))

(***************************************************************************)
(* The tracker, as fetch_daily_activities reads it                         *)
(***************************************************************************)
\* the issues with updated >= lo and updated < hi, the newest first
RECURSIVE NewestFirst(_)
NewestFirst(set) ==
    IF set = {} THEN <<>>
    ELSE LET top == CHOOSE i \in set :
                        \A j \in set : DtLeq(j.updated, i.updated)
         IN  <<top>> \o NewestFirst(set \ {top})

FirstN(s, n) == IF Len(s) <= n THEN s ELSE SubSeq(s, 1, n)

\* jira.search_issues(jql_query, expand='changelog', maxResults=100) of line 69-70
SearchIssues(all, start_str, end_str) ==
    FirstN(NewestFirst({i \in all :
               /\ DtLeq(ParseMinute(start_str), i.updated)
               /\ DtLess(i.updated, ParseMinute(end_str))
               /\ i.assignee = "me"
               /\ i.project # "DEV"}), 100)

\* lines 84-89: the seconds of the worklogs started in the window
RECURSIVE WorklogTotal(_, _, _)
WorklogTotal(worklogs, start_of_day, end_of_day) ==
    IF worklogs = <<>> THEN 0
    ELSE LET worklog_date == AsUTC(ParseIso(IsoStr(Head(worklogs).started)))
         IN  (IF DtLeq(start_of_day, worklog_date) /\ DtLeq(worklog_date, end_of_day)
              THEN Head(worklogs).timeSpentSeconds ELSE 0)
                 + WorklogTotal(Tail(worklogs), start_of_day, end_of_day)

KeepComment(comment, start_of_day_str) ==
    StrGreater(IsoStr(comment.created), start_of_day_str) /\ comment.body # ""

\* lines 92-100
RECURSIVE CommentTexts(_, _)
CommentTexts(comments, start_of_day_str) ==
    IF comments = <<>> THEN <<>>
    ELSE (IF KeepComment(Head(comments), start_of_day_str)
          THEN <<[body |-> Head(comments).body,
                  created |-> SplitT(IsoStr(Head(comments).created))]>>
          ELSE <<>>) \o CommentTexts(Tail(comments), start_of_day_str)

\* lines 105-113: the status items of one history
RECURSIVE ItemChanges(_, _, _, _)
ItemChanges(items, created, start_of_day, end_of_day) ==
    IF items = <<>> THEN <<>>
    ELSE LET status_change_time == AsUTC(ParseIso(IsoStr(created)))
         IN  (IF Head(items).field = "status"
                     /\ DtLeq(start_of_day, status_change_time)
                     /\ DtLeq(status_change_time, end_of_day)
              THEN <<[from |-> Head(items).fromString, to |-> Head(items).toString,
                      date |-> StrfMinute(status_change_time)]>>
              ELSE <<>>) \o ItemChanges(Tail(items), created, start_of_day, end_of_day)

\* lines 103-113
RECURSIVE StatusChanges(_, _, _)
StatusChanges(histories, start_of_day, end_of_day) ==
    IF histories = <<>> THEN <<>>
    ELSE ItemChanges(Head(histories).items, Head(histories).created,
                     start_of_day, end_of_day)
             \o StatusChanges(Tail(histories), start_of_day, end_of_day)

(***************************************************************************)
(* fetch_daily_activities of the logger (lines 56-141), followed for run 1 *)
(***************************************************************************)
Called(p, name) == [calls EXCEPT ![p] = Append(@, name)]

Logs(p, line) == [logged EXCEPT ![p] = line]

\* what the except clauses of lines 130-140 log
ErrorLines == {"auth_401", "auth_403", "not_found_404", "jira_error", "exception"}

\* lines 116-126: the record of one issue
ActivityRecord(issue, time_total, start_of_day_str, start_of_day, end_of_day) ==
    [issue_key |-> issue.key,
     issue_summary |-> issue.summary,
     issue_link |-> issue.key,
     original_estimate |-> issue.timeoriginalestimate,
     time_spent |-> Some(time_total),
     comments |-> CommentTexts(issue.comments, start_of_day_str),
     status_changes |-> StatusChanges(issue.histories, start_of_day, end_of_day),
     created |-> SplitT(IsoStr(issue.created)),
     updated |-> SplitT(IsoStr(issue.updated))]

\* lines 58-61: the window; no window returns None
FetchWindow ==
    /\ mpc = "fetch"
    /\ window' = LoggerPreviousWorkingDay(custom_date, now)
    /\ IF window'.ok
       THEN mpc' = "search" /\ UNCHANGED <<daily_activities, logged>>
       ELSE /\ mpc' = "fetched"
            /\ daily_activities' = <<>>
            /\ logged' = Logs(1, "invalid_date")
    /\ UNCHANGED <<variant, now, custom_date, wpc, fmtVars, ri, activity_string,
                   total_original_estimate, total_time_spent, collVars, trackerVars,
                   upVars, calls>>

\* lines 63-72: the query and the search
SearchOk ==
    /\ mpc = "search"
    /\ issues' = SearchIssues(tracker_issues, StrfMinute(window.start),
                              StrfMinute(window.end))
    /\ calls' = Called(1, "search_issues")
    /\ activity_list' = <<>>
    /\ ci' = 1
    /\ mpc' = "loop"
    /\ UNCHANGED <<winVars, fmtVars, renderVars, tracker_issues, worklog_time_total,
                   trackerVars, upVars, logged>>

\* lines 84-89: the worklogs of the current issue
WorklogsOk ==
    /\ mpc = "loop"
    /\ ci <= Len(issues)
    /\ calls' = Called(1, "worklogs")
    /\ worklog_time_total' = WorklogTotal(issues[ci].worklogs, window.start, window.end)
    /\ mpc' = "comments"
    /\ UNCHANGED <<winVars, fmtVars, renderVars, tracker_issues, issues, ci,
                   activity_list, trackerVars, upVars, logged>>

\* lines 92-126: the comments, the status changes and the record
CommentsOk ==
    /\ mpc = "comments"
    /\ calls' = Called(1, "comments")
    /\ activity_list' =
           Append(activity_list,
                  ActivityRecord(issues[ci], worklog_time_total,
                                 StrfMinute(window.start), window.start, window.end))
    /\ ci' = ci + 1
    /\ mpc' = "loop"
    /\ UNCHANGED <<winVars, fmtVars, renderVars, tracker_issues, issues,
                   worklog_time_total, trackerVars, upVars, logged>>

\* line 128
ReturnList ==
    /\ mpc = "loop"
    /\ ci > Len(issues)
    /\ daily_activities' = activity_list
    /\ mpc' = "fetched"
    /\ UNCHANGED <<winVars, fmtVars, ri, activity_string, total_original_estimate,
                   total_time_spent, collVars, trackerVars, upVars, logVars>>

\* lines 130-141: a tracker call raises; the error is logged and None returned
CollectorRaises ==
    /\ \/ mpc = "search" /\ calls' = Called(1, "search_issues")
       \/ mpc = "loop" /\ ci <= Len(issues) /\ calls' = Called(1, "worklogs")
       \/ mpc = "comments" /\ calls' = Called(1, "comments")
    /\ \E line \in ErrorLines : logged' = Logs(1, line)
    /\ daily_activities' = <<>>
    /\ mpc' = "fetched"
    /\ UNCHANGED <<winVars, fmtVars, ri, activity_string, total_original_estimate,
                   total_time_spent, collVars, trackerVars, upVars>>

(***************************************************************************)
(* The collector on its own: one issue with every placement of its         *)
(* timestamps around the window of Wednesday 2024-07-31                    *)
(***************************************************************************)
WindowDay == FirstDay + 4

At(d, s, o) == [day |-> d, sec |-> s, us |-> 0, off |-> o]

\* instants around the window, in UTC and in UTC+5:45
Instants ==
    {At(WindowDay - 1, 86399, 0), At(WindowDay, 0, 0), At(WindowDay, 43200, 0),
     At(WindowDay, 86370, 0), At(WindowDay, 86399, 0), At(WindowDay + 1, 0, 0),
     At(WindowDay + 2, 36000, 0), At(WindowDay, 7200, 20700),
     At(WindowDay + 1, 10800, 20700)}

HistoryInstants == {At(WindowDay, 43200, 0), At(WindowDay + 1, 0, 0)}

VaryingIssue(u, w, c, h) ==
    [key |-> "ABC-1", summary |-> "Fix bug", assignee |-> "me", project |-> "ABC",
     created |-> At(WindowDay - 2, 32400, 0), updated |-> u,
     timeoriginalestimate |-> Some(7200),
     worklogs |-> <<[started |-> w, timeSpentSeconds |-> 3600]>>,
     comments |-> <<[body |-> "Done", created |-> c]>>,
     histories |-> <<[created |-> h,
                      items |-> <<[field |-> "status", fromString |-> "To Do",
                                   toString |-> "Done"]>>]>>]

OtherIssue(assignee, project) ==
    [key |-> "XYZ-2", summary |-> "Review", assignee |-> assignee, project |-> project,
     created |-> At(WindowDay - 2, 32400, 0), updated |-> At(WindowDay, 36000, 0),
     timeoriginalestimate |-> None,
     worklogs |-> <<[started |-> At(WindowDay, 34200, 0), timeSpentSeconds |-> 60],
                    [started |-> At(WindowDay - 1, 34200, 0), timeSpentSeconds |-> 1800]>>,
     comments |-> <<[body |-> "", created |-> At(WindowDay, 36000, 0)],
                    [body |-> "Looks good", created |-> At(WindowDay, 36000, 0)]>>,
     histories |-> <<[created |-> At(WindowDay, 36000, 0),
                      items |-> <<[field |-> "assignee", fromString |-> "a",
                                   toString |-> "b"],
                                  [field |-> "status", fromString |-> "Open",
                                   toString |-> "In Review"]>>]>>]

OtherIssues == {OtherIssue("me", "XYZ"), OtherIssue("other", "XYZ"), OtherIssue("me", "DEV")}

CollInit ==
    /\ mpc = "fetch"
    /\ variant = "logger"
    /\ now = [day |-> WindowDay + 1, sec |-> 36000, us |-> 250000, off |-> 0]
    /\ custom_date \in {<<>>, DateText(WindowDay)}
    /\ window = NoWindow
    /\ wpc = "idle"
    /\ \E u \in Instants, w \in Instants, c \in Instants, h \in HistoryInstants,
          o \in OtherIssues :
           tracker_issues = {VaryingIssue(u, w, c, h), o}
    /\ issues = <<>>
    /\ ci = 0
    /\ activity_list = <<>>
    /\ worklog_time_total = 0
    /\ daily_activities = <<>>
    /\ ri = 0
    /\ activity_string = <<>>
    /\ total_original_estimate = 0
    /\ total_time_spent = 0
    /\ FmtIdle /\ LogIdle /\ UpIdle /\ TrackerIdle

CollNext ==
    FetchWindow \/ SearchOk \/ WorklogsOk \/ CommentsOk \/ ReturnList \/ CollectorRaises

SpecCollect == CollInit /\ [][CollNext]_vars

InWindow(t) == DtLeq(window.start, t) /\ DtLeq(t, window.end)

Searched == mpc \in {"loop", "comments"}

\* C9: the search returns every issue of the current user outside project DEV
\* whose updated timestamp lies in [start, end], the last minute included.
C9_WholeWindow ==
    Searched =>
        \A i \in tracker_issues :
            (i.assignee = "me" /\ i.project # "DEV" /\ InWindow(i.updated))
                => \E k \in 1..Len(issues) : issues[k] = i

Collected == mpc = "fetched" /\ logged[1] = ""

IssueOf(record) == CHOOSE i \in tracker_issues : i.key = record.issue_key

RECURSIVE SecondsIn(_)
SecondsIn(worklogs) ==
    IF worklogs = <<>> THEN 0
    ELSE (IF InWindow(Head(worklogs).started) THEN Head(worklogs).timeSpentSeconds ELSE 0)
             + SecondsIn(Tail(worklogs))

\* C10: what a record holds is restricted to the window: its time spent counts
\* the worklogs started in the window only, and every status change and every
\* comment in it has its timestamp between window start and window end.
C10_Restricted ==
    Collected =>
        \A k \in 1..Len(daily_activities) :
            LET record == daily_activities[k]
                issue == IssueOf(record)
            IN  /\ record.time_spent = Some(SecondsIn(issue.worklogs))
                /\ \A h \in 1..Len(issue.histories) :
                       (\E j \in 1..Len(record.status_changes) :
                            record.status_changes[j].date
                                = StrfMinute(AsUTC(issue.histories[h].created)))
                           => InWindow(issue.histories[h].created)
                /\ \A c \in 1..Len(issue.comments) :
                       (\E j \in 1..Len(record.comments) :
                            record.comments[j].body = issue.comments[c].body)
                           => InWindow(issue.comments[c].created)

(***************************************************************************)
(* create_daily_work_log (logger lines 144-216, creator lines 105-176),    *)
(* one step per tracker call, for each run p                               *)
(***************************************************************************)
UserName == "Asha"

WriteCalls == {"add_comment", "create_issue", "assign_issue"}

MonthAbbrs == <<"Jan", "Feb", "Mar", "Apr", "May", "Jun", "Jul", "Aug", "Sep", "Oct",
                "Nov", "Dec">>

\* now.replace(day=1, hour=0, minute=0, second=0, microsecond=0)
MonthStart(dt) ==
    LET c == FromOrdinal(dt.day)
    IN  [dt EXCEPT !.day = Ordinal(c.y, c.m, 1), !.sec = 0, !.us = 0]

\* (month_start + timedelta(days=32)).replace(day=1) - timedelta(seconds=1)
MonthEnd(month_start) ==
    LET c == FromOrdinal(month_start.day + 32)
    IN  MinusSeconds([month_start EXCEPT !.day = Ordinal(c.y, c.m, 1)], 1)

\* the tracker's reading of a JQL date "yyyy-MM-dd": that day at 00:00
ParseDay(s) ==
    [day |-> Ordinal(Dec4(s, 1), Dec2(s, 6), Dec2(s, 9)), sec |-> 0, us |-> 0, off |-> 0]

\* jira.search_issues(epic_jql): the epics whose summary holds the name
EpicSearch(all, name) == SelectSeq(all, LAMBDA e : e.summary = name)

\* jira.search_issues(monthly_jql): the tasks whose summary holds the name,
\* created between the two dates
MonthlySearch(all, name, month_start_str, month_end_str) ==
    SelectSeq(all, LAMBDA t :
        /\ t.summary = name
        /\ DtLeq(ParseDay(month_start_str), t.created)
        /\ DtLeq(t.created, ParseDay(month_end_str)))

\* the monthly tasks the run of p finds
MonthlyFound(p) ==
    MonthlySearch(monthlies, UserName, StrfDate(MonthStart(u_now[p])),
                  StrfDate(MonthEnd(MonthStart(u_now[p]))))

\* jira.search_issues(sub_task_jql): the keys of the sub-tasks of a parent that
\* start on a date
SubTaskSearch(all, parent, today_str) ==
    {k \in 1..Len(all) : all[k].parent = parent /\ all[k].start_date = today_str}

Ended == {"Done", "Failed"}

UpRest == <<winVars, fmtVars, mpc, renderVars, collVars>>

\* lines 146-161: the user and the dates
ResolveUser(p) ==
    /\ upc[p] = "user"
    /\ calls' = [calls EXCEPT ![p] = @ \o <<"current_user", "user">>]
    /\ u_now' = [u_now EXCEPT ![p] = now]
    /\ upc' = [upc EXCEPT ![p] = "epic"]
    /\ UNCHANGED <<UpRest, trackerVars, u_report, u_monthly, u_sub, pre, journal,
                   runs, overlap, logged>>

\* lines 163-172: the epic; none ends the run
ResolveEpic(p) ==
    /\ upc[p] = "epic"
    /\ calls' = Called(p, "search_issues")
    /\ IF EpicSearch(epics, UserName) = <<>>
       THEN upc' = [upc EXCEPT ![p] = "Failed"] /\ logged' = Logs(p, "no_epic")
       ELSE upc' = [upc EXCEPT ![p] = "monthly"] /\ UNCHANGED logged
    /\ UNCHANGED <<UpRest, trackerVars, u_report, u_now, u_monthly, u_sub, pre,
                   journal, runs, overlap>>

\* a slip: a missing monthly task does not end the run
ResolveMonthlySlip(p) ==
    /\ upc[p] = "monthly"
    /\ calls' = Called(p, "search_issues")
    /\ u_monthly' = [u_monthly EXCEPT ![p] =
                        IF MonthlyFound(p) = <<>> THEN "" ELSE MonthlyFound(p)[1].key]
    /\ upc' = [upc EXCEPT ![p] = "subtask"]
    /\ logged' = IF MonthlyFound(p) = <<>> THEN Logs(p, "no_monthly") ELSE logged
    /\ UNCHANGED <<UpRest, trackerVars, u_report, u_now, u_sub, pre, journal, runs, overlap>>

\* lines 174-184: the monthly task; none ends the run
ResolveMonthly(p) ==
    /\ upc[p] = "monthly"
    /\ calls' = Called(p, "search_issues")
    /\ IF MonthlyFound(p) = <<>>
       THEN /\ upc' = [upc EXCEPT ![p] = "Failed"]
            /\ logged' = Logs(p, "no_monthly")
            /\ UNCHANGED u_monthly
       ELSE /\ upc' = [upc EXCEPT ![p] = "subtask"]
            /\ u_monthly' = [u_monthly EXCEPT ![p] = MonthlyFound(p)[1].key]
            /\ UNCHANGED logged
    /\ UNCHANGED <<UpRest, trackerVars, u_report, u_now, u_sub, pre, journal, runs, overlap>>

\* a slip: the search result is not looked at, a sub-task is always created
ResolveSubTaskSlip(p) ==
    /\ upc[p] = "subtask"
    /\ calls' = Called(p, "search_issues")
    /\ upc' = [upc EXCEPT ![p] = "create"]
    /\ UNCHANGED <<UpRest, trackerVars, u_report, u_now, u_monthly, u_sub, pre,
                   journal, runs, overlap, logged>>

\* lines 186-191: today's sub-task of the monthly task; the first returned is taken
ResolveSubTask(p) ==
    /\ upc[p] = "subtask"
    /\ calls' = Called(p, "search_issues")
    /\ LET existing_sub_tasks == SubTaskSearch(subtasks, u_monthly[p], StrfDate(u_now[p]))
       IN  IF existing_sub_tasks # {}
           THEN /\ \E k \in existing_sub_tasks : u_sub' = [u_sub EXCEPT ![p] = k]
                /\ upc' = [upc EXCEPT ![p] = "append"]
           ELSE /\ upc' = [upc EXCEPT ![p] = "create"]
                /\ UNCHANGED u_sub
    /\ UNCHANGED <<UpRest, trackerVars, u_report, u_now, u_monthly, pre, journal,
                   runs, overlap, logged>>

\* lines 194-196: the report becomes a new comment of the sub-task
AddComment(p) ==
    /\ upc[p] = "append"
    /\ calls' = Called(p, "add_comment")
    /\ subtasks' = [subtasks EXCEPT ![u_sub[p]].comments = Append(@, u_report[p])]
    /\ journal' = Append(journal, u_sub[p])
    /\ logged' = Logs(p, "appended")
    /\ upc' = [upc EXCEPT ![p] = "Done"]
    /\ UNCHANGED <<UpRest, epics, monthlies, u_report, u_now, u_monthly, u_sub, pre,
                   runs, overlap>>

\* a slip: create_issue looks again and adds no second sub-task for the day
CreateIssueRechecks(p) ==
    /\ upc[p] = "create"
    /\ calls' = Called(p, "create_issue")
    /\ LET today == SubTaskSearch(subtasks, u_monthly[p], StrfDate(u_now[p]))
       IN  IF today # {}
           THEN /\ \E k \in today : u_sub' = [u_sub EXCEPT ![p] = k]
                /\ UNCHANGED subtasks
           ELSE /\ subtasks' = Append(subtasks,
                       [parent |-> u_monthly[p],
                        summary |-> Pad2(FromOrdinal(u_now[p].day).d) \o <<",", " ">>
                                        \o <<MonthAbbrs[FromOrdinal(u_now[p].day).m]>>,
                        description |-> u_report[p],
                        start_date |-> StrfDate(u_now[p]),
                        assignee |-> "",
                        comments |-> <<>>])
                /\ u_sub' = [u_sub EXCEPT ![p] = Len(subtasks) + 1]
    /\ IF variant = "logger"
       THEN upc' = [upc EXCEPT ![p] = "assign"] /\ UNCHANGED logged
       ELSE upc' = [upc EXCEPT ![p] = "Done"] /\ logged' = Logs(p, "created")
    /\ UNCHANGED <<UpRest, epics, monthlies, u_report, u_now, u_monthly, pre,
                   journal, runs, overlap>>

\* lines 198-209 (creator 159-171): a new sub-task of the monthly task
CreateIssue(p) ==
    /\ upc[p] = "create"
    /\ calls' = Called(p, "create_issue")
    /\ subtasks' = Append(subtasks,
           [parent |-> u_monthly[p],
            summary |-> Pad2(FromOrdinal(u_now[p].day).d) \o <<",", " ">>
                            \o <<MonthAbbrs[FromOrdinal(u_now[p].day).m]>>,
            description |-> u_report[p],
            start_date |-> StrfDate(u_now[p]),
            assignee |-> "",
            comments |-> <<>>])
    /\ u_sub' = [u_sub EXCEPT ![p] = Len(subtasks) + 1]
    /\ IF variant = "logger"
       THEN upc' = [upc EXCEPT ![p] = "assign"] /\ UNCHANGED logged
       ELSE upc' = [upc EXCEPT ![p] = "Done"] /\ logged' = Logs(p, "created")
    /\ UNCHANGED <<UpRest, epics, monthlies, u_report, u_now, u_monthly, pre,
                   journal, runs, overlap>>

\* a slip: the call is made for the monthly task's key, the sub-task stays as it was
AssignIssueSlip(p) ==
    /\ upc[p] = "assign"
    /\ calls' = Called(p, "assign_issue")
    /\ logged' = Logs(p, "created")
    /\ upc' = [upc EXCEPT ![p] = "Done"]
    /\ UNCHANGED <<UpRest, trackerVars, u_report, u_now, u_monthly, u_sub, pre,
                   journal, runs, overlap>>

\* lines 210-211 of the logger: the new sub-task is assigned to the user
AssignIssue(p) ==
    /\ upc[p] = "assign"
    /\ calls' = Called(p, "assign_issue")
    /\ subtasks' = [subtasks EXCEPT ![u_sub[p]].assignee = UserName]
    /\ logged' = Logs(p, "created")
    /\ upc' = [upc EXCEPT ![p] = "Done"]
    /\ UNCHANGED <<UpRest, epics, monthlies, u_report, u_now, u_monthly, u_sub, pre,
                   journal, runs, overlap>>

\* the call the run of p makes next
NextCall(p) ==
    IF upc[p] = "user" THEN "current_user"
    ELSE IF upc[p] \in {"epic", "monthly", "subtask"} THEN "search_issues"
    ELSE IF upc[p] = "append" THEN "add_comment"
    ELSE IF upc[p] = "create" THEN "create_issue"
    ELSE "assign_issue"

\* lines 213-216: a tracker call raises; the error is logged and the run ends
UpserterRaises(p) ==
    /\ upc[p] \in {"user", "epic", "monthly", "subtask", "append", "create", "assign"}
    /\ calls' = Called(p, NextCall(p))
    /\ \E line \in {"jira_error", "exception"} : logged' = Logs(p, line)
    /\ upc' = [upc EXCEPT ![p] = "Failed"]
    /\ UNCHANGED <<UpRest, trackerVars, u_report, u_now, u_monthly, u_sub, pre,
                   journal, runs, overlap>>

UpserterStep(p) ==
    \/ ResolveUser(p)
    \/ ResolveEpic(p)
    \/ ResolveMonthly(p)
    \/ ResolveSubTask(p)
    \/ AddComment(p)
    \/ CreateIssue(p)
    \/ AssignIssue(p)
    \/ UpserterRaises(p)

(***************************************************************************)
(* Runs of create_daily_work_log one after another, on 2024-08-01 and the  *)
(* days after                                                              *)
(***************************************************************************)
MaxRuns == 2

MaxDaysForward == 1

UpDay == Ordinal(2024, 8, 1)

\* a report of one activity, as __main__ renders it
ReportOf(a) ==
    ActivityPanel(a) \o TotalsPanel(OrZero(a.original_estimate), OrZero(a.time_spent))

Reports ==
    {ReportOf(a) : a \in {r \in RenderPool :
        r.issue_key = "ABC-1" /\ r.original_estimate = Some(7200)}}

\* the report of an earlier day
OldReport == TotalsPanel(0, 0)

MyEpic == [key |-> "DEV-1", summary |-> UserName]

OtherEpic == [key |-> "DEV-2", summary |-> "Bina"]

JulyTask == [key |-> "DEV-10", summary |-> UserName, created |-> At(UpDay - 31, 32400, 0)]

AugustTask == [key |-> "DEV-11", summary |-> UserName, created |-> At(UpDay, 32400, 0)]

OldSubTask(parent, day) ==
    [parent |-> parent,
     summary |-> Pad2(FromOrdinal(day).d) \o <<",", " ">>
                     \o <<MonthAbbrs[FromOrdinal(day).m]>>,
     description |-> OldReport,
     start_date |-> DateText(day),
     assignee |-> UserName,
     comments |-> <<OldReport>>]

\* the tracker before the runs: with and without the epic, the month's task
\* and today's sub-task
TrackerInit ==
    /\ epics \in {<<OtherEpic>>, <<OtherEpic, MyEpic>>}
    /\ \/ /\ monthlies = <<JulyTask>>
          /\ subtasks \in {<<>>, <<OldSubTask("DEV-10", UpDay - 1)>>}
       \/ /\ monthlies = <<JulyTask, AugustTask>>
          /\ subtasks \in {<<>>, <<OldSubTask("DEV-10", UpDay - 1)>>,
                           <<OldSubTask("DEV-10", UpDay - 1),
                             OldSubTask("DEV-11", UpDay)>>}

UpInit ==
    /\ variant \in {"logger", "creator"}
    /\ now = [day |-> UpDay, sec |-> 36000, us |-> 250000, off |-> 0]
    /\ custom_date = <<>>
    /\ window = NoWindow
    /\ wpc = "idle"
    /\ TrackerInit
    /\ FmtIdle /\ MainIdle /\ CollIdle /\ LogIdle /\ UpIdle

\* the script is started: create_daily_work_log(activity_string) is entered
BeginRun(p) ==
    /\ upc[p] = "idle"
    /\ runs < MaxRuns
    /\ \E r \in Reports : u_report' = [u_report EXCEPT ![p] = r]
    /\ pre' = [pre EXCEPT ![p] = subtasks]
    /\ upc' = [upc EXCEPT ![p] = "user"]
    /\ runs' = runs + 1
    /\ overlap' = (overlap \/ \E q \in Procs : upc[q] # "idle")
    /\ UNCHANGED <<UpRest, trackerVars, u_now, u_monthly, u_sub, journal, logVars>>

\* the process of an ended run exits
ExitRun(p) ==
    /\ upc[p] \in Ended
    /\ upc' = [upc EXCEPT ![p] = "idle"]
    /\ u_report' = [u_report EXCEPT ![p] = <<>>]
    /\ u_monthly' = [u_monthly EXCEPT ![p] = ""]
    /\ u_sub' = [u_sub EXCEPT ![p] = 0]
    /\ pre' = [pre EXCEPT ![p] = <<>>]
    /\ calls' = [calls EXCEPT ![p] = <<>>]
    /\ logged' = [logged EXCEPT ![p] = ""]
    /\ UNCHANGED <<UpRest, trackerVars, u_now, journal, runs, overlap>>

\* midnight passes
Tick ==
    /\ now.day < UpDay + MaxDaysForward
    /\ now' = PlusDays(now, 1)
    /\ UNCHANGED <<variant, custom_date, window, wpc, fmtVars, mpc, renderVars,
                   collVars, trackerVars, upVars, logVars>>

\* no run is under way
Quiet == \A q \in Procs : upc[q] = "idle"

UpNext ==
    \/ \E p \in Procs : Quiet /\ BeginRun(p)
    \/ \E p \in Procs : UpserterStep(p)
    \/ \E p \in Procs : ExitRun(p)
    \/ Tick

Spec == UpInit /\ [][UpNext]_vars

RECURSIVE Count(_, _)
Count(seq, x) ==
    IF seq = <<>> THEN 0
    ELSE (IF Head(seq) = x THEN 1 ELSE 0) + Count(Tail(seq), x)

\* today's sub-tasks of the run's monthly task, in a list of sub-tasks
TodaysIn(list, p) == SubTaskSearch(list, u_monthly[p], StrfDate(u_now[p]))

\* the comments a sub-task had before the runs
OldComments(task) == IF task.description = OldReport THEN <<OldReport>> ELSE <<>>

\* C1: when a sub-task of the monthly task for today exists, a successful run
\* adds exactly one comment to it and creates no sub-task; after N such runs the
\* sub-task has N more comments, the earlier ones unchanged, and today's
\* sub-tasks are the same.
C1_UpsertByAppend ==
    /\ \A p \in Procs :
           (upc[p] = "Done" /\ TodaysIn(pre[p], p) # {}) =>
               /\ u_sub[p] \in TodaysIn(pre[p], p)
               /\ subtasks = [pre[p] EXCEPT ![u_sub[p]].comments = Append(@, u_report[p])]
               /\ TodaysIn(subtasks, p) = TodaysIn(pre[p], p)
               /\ Count(calls[p], "add_comment") = 1
               /\ Count(calls[p], "create_issue") = 0
    /\ \A k \in 1..Len(subtasks) :
           LET old == OldComments(subtasks[k])
               n == Count(journal, k)
           IN  /\ Len(subtasks[k].comments) = Len(old) + n
               /\ SubSeq(subtasks[k].comments, 1, Len(old)) = old
               /\ \A i \in (Len(old) + 1)..(Len(old) + n) :
                      subtasks[k].comments[i] \in Reports

C1_Witness ==
    /\ \E p \in Procs : upc[p] = "Done" /\ TodaysIn(pre[p], p) = {2} /\ u_sub[p] = 2
    /\ now.day = UpDay
    /\ journal = <<2, 2>>
    /\ runs = MaxRuns
    /\ Len(subtasks) = 2
    /\ Len(subtasks[2].comments) = 3

AfterEpic == {"monthly", "subtask", "append", "create", "assign", "Done"}

AfterMonthly == {"subtask", "append", "create", "assign", "Done"}

\* C2: when the epic search or the monthly-task search returns nothing, the run
\* ends Failed without add_comment, create_issue or assign_issue, and the
\* sub-tasks and their comments are as they were before the run.
C2_NoTargetNoWrite ==
    \A p \in Procs :
        /\ upc[p] \in AfterEpic => EpicSearch(epics, UserName) # <<>>
        /\ upc[p] \in AfterMonthly => MonthlyFound(p) # <<>>
        /\ logged[p] = "no_epic" => EpicSearch(epics, UserName) = <<>>
        /\ logged[p] = "no_monthly" => MonthlyFound(p) = <<>>
        /\ logged[p] \in {"no_epic", "no_monthly"} =>
               /\ upc[p] = "Failed"
               /\ \A i \in 1..Len(calls[p]) : calls[p][i] \notin WriteCalls
               /\ subtasks = pre[p]

C2_Witness ==
    \E p \in Procs :
        /\ upc[p] = "Failed" /\ logged[p] = "no_monthly"
        /\ calls[p] = <<"current_user", "user", "search_issues", "search_issues">>
        /\ now.day = UpDay /\ monthlies = <<JulyTask>> /\ subtasks # <<>>

C2_WitnessEpic ==
    \E p \in Procs :
        /\ upc[p] = "Failed" /\ logged[p] = "no_epic"
        /\ calls[p] = <<"current_user", "user", "search_issues">>

(***************************************************************************)
(* Runs of create_daily_work_log that may overlap: a run may begin while   *)
(* another is under way, and their tracker calls interleave                *)
(***************************************************************************)
RaceNext ==
    \/ \E p \in Procs : BeginRun(p)
    \/ \E p \in Procs : UpserterStep(p)
    \/ \E p \in Procs : ExitRun(p)
    \/ Tick

\* the tracker holds the user's epic and the month's task: the runs reach the
\* sub-task search
RaceInit == UpInit /\ epics = <<OtherEpic, MyEpic>> /\ monthlies = <<JulyTask, AugustTask>>

SpecRace == RaceInit /\ [][RaceNext]_vars

\* the sub-tasks of one parent with one start date, in the tracker
SameDay(k) ==
    {j \in 1..Len(subtasks) :
        subtasks[j].parent = subtasks[k].parent
            /\ subtasks[j].start_date = subtasks[k].start_date}

\* runs strictly one after another leave at most one sub-task per parent and day
C11_OneAfterAnother ==
    ~overlap => \A k \in 1..Len(subtasks) : SameDay(k) = {k}

\* a run whose search finds no sub-task for today takes the Create branch, also
\* while another run waits to create; and create_issue of a run that took the
\* Create branch adds a sub-task for the day even when another run has created
\* one since the search
C11_CreateRegardless ==
    \A p \in Procs :
        /\ (upc[p] = "subtask" /\ TodaysIn(subtasks, p) = {}
               /\ upc'[p] \notin {"subtask", "Failed"}) => upc'[p] = "create"
        /\ (upc[p] = "create" /\ upc'[p] \in {"assign", "Done"}) =>
               /\ Len(subtasks') = Len(subtasks) + 1
               /\ TodaysIn(subtasks', p) = TodaysIn(subtasks, p) \cup {Len(subtasks')}
               /\ u_sub'[p] = Len(subtasks')

\* C11: overlapping runs that both search for today's sub-task before either
\* creates it both take the Create branch and each creates a sub-task, so that
\* two sub-tasks of the same monthly task with the same start date exist; runs
\* strictly one after another leave at most one sub-task for the day.
C11_Race == [] C11_OneAfterAnother /\ [][C11_CreateRegardless]_vars

C11_Witness ==
    \E p, q \in Procs :
        /\ p # q /\ upc[p] = "Done" /\ upc[q] = "Done"
        /\ u_sub[p] # u_sub[q]
        /\ u_sub[p] > Len(pre[p]) /\ u_sub[q] > Len(pre[q])
        /\ TodaysIn(pre[p], p) = {} /\ TodaysIn(pre[q], q) = {}
        /\ u_monthly[p] = u_monthly[q] /\ u_now[p] = u_now[q]
        /\ TodaysIn(subtasks, p) = {u_sub[p], u_sub[q]}
        /\ Count(calls[p], "create_issue") = 1 /\ Count(calls[q], "create_issue") = 1

\* sequential runs reach the day's single sub-task by create, then append
C11_WitnessSequential ==
    /\ ~overlap /\ runs = MaxRuns
    /\ \E p \in Procs :
           /\ upc[p] = "Done" /\ Count(calls[p], "add_comment") = 1
           /\ u_sub[p] = Len(subtasks) /\ subtasks[u_sub[p]].description \in Reports
           /\ Len(subtasks[u_sub[p]].comments) >= 1

\* the run of p has ended and has created a sub-task
CreatedBy(p) == upc[p] \in Ended /\ u_sub[p] > Len(pre[p])

\* C12: in the logger, every sub-task a run has created has, when the run has
\* ended in Done or in Failed, the monthly task as parent, today as start date,
\* the report as description, and the current user as assignee.
C12_CreatedAssigned ==
    variant = "logger" =>
        \A p \in Procs :
            CreatedBy(p) =>
                LET sub_task == subtasks[u_sub[p]]
                IN  /\ sub_task.parent = u_monthly[p]
                    /\ sub_task.start_date = StrfDate(u_now[p])
                    /\ sub_task.description = u_report[p]
                    /\ sub_task.assignee = UserName

\* C12 as amended: in the logger, a sub-task a run has created has the monthly
\* task as parent, today as start date and the report as description when the
\* run has ended; it is assigned to the current user when the run ended in Done,
\* and is left unassigned when the run ended in Failed, which after create_issue
\* only a raising assign_issue brings about.
C12_AssignedWhenDone ==
    variant = "logger" =>
        \A p \in Procs :
            CreatedBy(p) =>
                LET sub_task == subtasks[u_sub[p]]
                IN  /\ sub_task.parent = u_monthly[p]
                    /\ sub_task.start_date = StrfDate(u_now[p])
                    /\ sub_task.description = u_report[p]
                    /\ sub_task.comments = <<>>
                    /\ Count(calls[p], "create_issue") = 1
                    /\ calls[p][Len(calls[p])] = "assign_issue"
                    /\ upc[p] = "Done" => sub_task.assignee = UserName
                    /\ upc[p] = "Failed" =>
                           sub_task.assignee = "" /\ logged[p] \in {"jira_error", "exception"}

C12_Witness ==
    /\ variant = "logger"
    /\ \E p \in Procs :
           /\ CreatedBy(p) /\ upc[p] = "Done" /\ logged[p] = "created"
           /\ subtasks[u_sub[p]].assignee = UserName
           /\ subtasks[u_sub[p]].parent = "DEV-11"
           /\ subtasks[u_sub[p]].description \in Reports

C12_WitnessFailed ==
    /\ variant = "logger"
    /\ \E p \in Procs :
           CreatedBy(p) /\ upc[p] = "Failed" /\ subtasks[u_sub[p]].assignee = ""

(***************************************************************************)
(* __main__ of the logger from the prompt to the exit (lines 227-282),     *)
(* followed for run 1                                                      *)
(***************************************************************************)
\* s.strip() of blanks
RECURSIVE LStrip(_)
LStrip(s) == IF s # <<>> /\ Head(s) = " " THEN LStrip(Tail(s)) ELSE s

RECURSIVE RStrip(_)
RStrip(s) ==
    IF s # <<>> /\ s[Len(s)] = " " THEN RStrip(SubSeq(s, 1, Len(s) - 1)) ELSE s

Strip(s) == RStrip(LStrip(s))

\* lines 229-230: the date typed at the prompt, stripped; empty is None
MainInput ==
    /\ mpc = "input"
    /\ custom_date' = Strip(custom_date)
    /\ mpc' = "fetch"
    /\ UNCHANGED <<variant, now, window, wpc, fmtVars, renderVars, collVars,
                   trackerVars, upVars, logVars>>

\* line 280: create_daily_work_log(activity_string) is entered
CallUpserter ==
    /\ mpc = "rendered"
    /\ mpc' = "upsert"
    /\ u_report' = [u_report EXCEPT ![1] = activity_string]
    /\ pre' = [pre EXCEPT ![1] = subtasks]
    /\ upc' = [upc EXCEPT ![1] = "user"]
    /\ runs' = runs + 1
    /\ UNCHANGED <<winVars, fmtVars, renderVars, collVars, trackerVars, u_now,
                   u_monthly, u_sub, journal, overlap, logVars>>

\* create_daily_work_log has returned: the script ends
MainExit ==
    /\ mpc = "upsert"
    /\ upc[1] \in Ended
    /\ mpc' = "exit"
    /\ UNCHANGED <<winVars, fmtVars, renderVars, collVars, trackerVars, upVars, logVars>>

\* what is typed at the prompt
TypedDates ==
    {<<>>, <<" ">>, DateText(WindowDay), <<" ">> \o DateText(WindowDay) \o <<" ">>,
     <<"3", "1", "-", "0", "7", "-", "2", "0", "2", "4">>,
     <<"2", "0", "2", "4", "-", "0", "7", "-", "3", "2">>,
     <<"2", "0", "2", "4", "-", "0", "0", "-", "1", "0">>, <<"a", "b", "c", "d">>}

MalformedTyped == {d \in TypedDates : Strip(d) # <<>> /\ Strip(d) # DateText(WindowDay)}

\* the issues of the work projects: updated on the day of the window or not
MainIssues ==
    {{VaryingIssue(u, At(WindowDay, 43200, 0), At(WindowDay, 43200, 0),
                   At(WindowDay, 43200, 0)), o} :
        u \in {At(WindowDay, 43200, 0), At(WindowDay + 1, 0, 0)},
        o \in {OtherIssue("me", "XYZ"), OtherIssue("other", "XYZ")}}

MainInit ==
    /\ mpc = "input"
    /\ variant = "logger"
    /\ now = [day |-> UpDay, sec |-> 36000, us |-> 250000, off |-> 0]
    /\ custom_date \in TypedDates
    /\ window = NoWindow
    /\ wpc = "idle"
    /\ tracker_issues \in MainIssues
    /\ issues = <<>>
    /\ ci = 0
    /\ activity_list = <<>>
    /\ worklog_time_total = 0
    /\ daily_activities = <<>>
    /\ ri = 0
    /\ activity_string = <<>>
    /\ total_original_estimate = 0
    /\ total_time_spent = 0
    /\ TrackerInit
    /\ FmtIdle /\ LogIdle /\ UpIdle

MainNext ==
    \/ MainInput
    \/ FetchWindow \/ SearchOk \/ WorklogsOk \/ CommentsOk \/ ReturnList
    \/ CollectorRaises
    \/ RenderBegin \/ NoActivities \/ RenderActivity \/ RenderTotals
    \/ CallUpserter
    \/ UpserterStep(1)
    \/ MainExit

SpecMain == MainInit /\ [][MainNext]_vars

NoWrite(p) == \A i \in 1..Len(calls[p]) : calls[p][i] \notin WriteCalls

\* the sub-tasks are those the tracker had before the run
Untouched ==
    subtasks \in {<<>>, <<OldSubTask("DEV-10", UpDay - 1)>>,
                  <<OldSubTask("DEV-10", UpDay - 1), OldSubTask("DEV-11", UpDay)>>}

AfterFetch == {"fetched", "render", "rendered", "upsert", "exit"}

\* C3: create_daily_work_log is entered only when fetch_daily_activities
\* returned a non-empty list; when the search returns no issues, a tracker call
\* of the collection raises or the date is malformed, the run writes nothing to
\* the tracker, and for a malformed date it searches no issues either.
C3_NoActivityNoUpsert ==
    /\ upc[1] # "idle" =>
           daily_activities # <<>> /\ Len(daily_activities) = Len(issues)
    /\ (mpc \in AfterFetch /\ daily_activities = <<>>) =>
           upc[1] = "idle" /\ NoWrite(1) /\ Untouched
    /\ (mpc \in AfterFetch /\ issues = <<>>) => daily_activities = <<>>
    /\ (mpc = "fetched" /\ logged[1] \in ErrorLines \cup {"invalid_date"}) =>
           daily_activities = <<>>
    /\ mpc = "exit" => (upc[1] = "idle" <=> daily_activities = <<>>)
    /\ (mpc # "input" /\ custom_date \in MalformedDates \cup MalformedTyped) =>
           calls[1] = <<>> /\ upc[1] = "idle" /\ Untouched

C3_Witness ==
    /\ mpc = "exit"
    /\ calls[1] = <<"search_issues", "worklogs", "comments", "worklogs">>
    /\ upc[1] = "idle"
    /\ issues # <<>>

C3_WitnessMalformed ==
    mpc = "exit" /\ custom_date \in MalformedTyped /\ calls[1] = <<>> /\ ~window.ok

C3_WitnessUpsert ==
    mpc = "exit" /\ upc[1] = "Done" /\ Len(daily_activities) = 2 /\ ~Untouched

====
